---- MODULE Spec2Model ----
(***************************************************************************)
(* Model of the editorjs-math block (src/src/index.js, class Math).        *)
(*                                                                         *)
(* JavaScript strings are sequences of lexemes: a lexeme is one plain      *)
(* character or one piece of markup.  The container's content is a DOM     *)
(* tree; assigning innerHTML parses a string into nodes, reading innerHTML *)
(* serialises the nodes, reading innerText/textContent concatenates the    *)
(* text of the nodes.  The two collaborators (window.math, the Symbolic    *)
(* Parser, and window.MathJax, the Typesetter) are environment state.      *)
(***************************************************************************)
EXTENDS Naturals, Sequences, FiniteSets

\* Longest string (in lexemes) the host, the user or a paste supplies.
MaxLen == 1
\* Longest string (in lexemes) the host hands to validate().
MaxValidateLen == 2
\* Most render() calls the host makes on one block.
MaxRender == 2

(***************************************************************************)
(* JavaScript values: a string or undefined.                               *)
(***************************************************************************)
Undefined == [type |-> "undefined", str |-> <<>>]
Str(s) == [type |-> "string", str |-> s]

\* String(v): what assigning v to innerHTML stores.
ToStr(v) == IF v.type = "undefined" THEN <<"undefined">> ELSE v.str

Truthy(v) == v.type = "string" /\ v.str # <<>>

\* a || b
JsOr(a, b) == IF Truthy(a) THEN a ELSE b

(***************************************************************************)
(* Lexemes.                                                                *)
(***************************************************************************)
SvgMarkup == "<svg></svg>"
SvgEscaped == "&lt;svg&gt;&lt;/svg&gt;"
SvgEscaped2 == "&amp;lt;svg&amp;gt;&amp;lt;/svg&amp;gt;"
BoldMarkup == "<b>x</b>"
BrMarkup == "<br>"
DivOpen == "<div contenteditable=\"true\">"
DivClose == "</div>"
TexMark == "\\tex"

\* Lexemes of the strings the host and the paste event supply.
InputLexemes == {"x", BoldMarkup, SvgMarkup}
\* Characters a user types into the editable container.
TypedLexemes == {"x"}

SeqsUpTo(S, n) == UNION {[1..k -> S] : k \in 0..n}

\* Strings of plain characters with at most one piece of markup among them.
OneMarkup(s) == Cardinality({i \in DOMAIN s : s[i] # "x"}) <= 1

InputStrings == {s \in SeqsUpTo(InputLexemes, MaxLen) : OneMarkup(s)}

(***************************************************************************)
(* DOM nodes.                                                              *)
(***************************************************************************)
TextNode(c) == [tag |-> "#text", text |-> c, kids |-> <<>>]
Element(tag, kids) == [tag |-> tag, text |-> "", kids |-> kids]

\* The HTML parser on one lexeme that is not a div tag.
ParseLexeme(l) ==
    CASE l = SvgMarkup -> Element("svg", <<>>)
      [] l = BoldMarkup -> Element("b", <<TextNode("x")>>)
      [] l = BrMarkup -> Element("br", <<>>)
      [] l = SvgEscaped -> TextNode(SvgMarkup)
      [] l = SvgEscaped2 -> TextNode(SvgEscaped)
      [] OTHER -> TextNode(l)

\* Position of the first DivClose in s, Len(s) + 1 when there is none.
RECURSIVE FirstClose(_, _)
FirstClose(s, i) ==
    IF i > Len(s) \/ s[i] = DivClose THEN i ELSE FirstClose(s, i + 1)

\* element.innerHTML = s
RECURSIVE ParseHTML(_)
ParseHTML(s) ==
    IF s = <<>> THEN <<>>
    ELSE IF Head(s) = DivOpen
         THEN LET rest == Tail(s)
                  k == FirstClose(rest, 1)
              IN <<Element("div", ParseHTML(SubSeq(rest, 1, k - 1)))>>
                   \o ParseHTML(SubSeq(rest, k + 1, Len(rest)))
    ELSE IF Head(s) = DivClose THEN ParseHTML(Tail(s))
    ELSE <<ParseLexeme(Head(s))>> \o ParseHTML(Tail(s))

\* Escaping of a text node's characters by the serialiser.
EscapeText(c) ==
    CASE c = SvgMarkup -> SvgEscaped
      [] c = SvgEscaped -> SvgEscaped2
      [] OTHER -> c

\* element.innerHTML read
RECURSIVE SerializeHTML(_)
SerializeHTML(kids) ==
    IF kids = <<>> THEN <<>>
    ELSE LET n == Head(kids)
             one == CASE n.tag = "#text" -> <<EscapeText(n.text)>>
                      [] n.tag = "svg" -> <<SvgMarkup>>
                      [] n.tag = "b" -> <<BoldMarkup>>
                      [] n.tag = "br" -> <<BrMarkup>>
                      [] OTHER -> <<DivOpen>> \o SerializeHTML(n.kids) \o <<DivClose>>
         IN one \o SerializeHTML(Tail(kids))

\* element.textContent / element.innerText
RECURSIVE TextContent(_)
TextContent(kids) ==
    IF kids = <<>> THEN <<>>
    ELSE LET n == Head(kids)
         IN (IF n.tag = "#text" THEN <<n.text>> ELSE TextContent(n.kids))
              \o TextContent(Tail(kids))

\* element.getElementsByTagName('svg').length > 0
RECURSIVE HasSvg(_)
HasSvg(kids) ==
    /\ kids # <<>>
    /\ \/ Head(kids).tag = "svg"
       \/ HasSvg(Head(kids).kids)
       \/ HasSvg(Tail(kids))

\* String.prototype.trim
IsSpace(l) == l = " "
RECURSIVE TrimStart(_)
TrimStart(s) == IF s # <<>> /\ IsSpace(Head(s)) THEN TrimStart(Tail(s)) ELSE s
RECURSIVE TrimEnd(_)
TrimEnd(s) ==
    IF s # <<>> /\ IsSpace(s[Len(s)]) THEN TrimEnd(SubSeq(s, 1, Len(s) - 1)) ELSE s
Trim(s) == TrimEnd(TrimStart(s))


(***************************************************************************)
(* The block object.  A MathData argument is [isNull, text]: isNull marks  *)
(* a missing argument, text is undefined when the field is unset.          *)
(***************************************************************************)
MathData(v) == [isNull |-> FALSE, text |-> v]
NoData == [isNull |-> TRUE, text |-> Undefined]

\* A handler's outcome: the object afterwards, whether an exception left the
\* handler, and how many render passes ran.
Done(t) == [this |-> t, thrown |-> FALSE, passes |-> 0]

\* set data(data)
setData(t, d) ==
    LET stored == IF d.isNull THEN MathData(Undefined) ELSE d
    IN [t EXCEPT !.data = stored,
                 !.element = ParseHTML(ToStr(JsOr(stored.text, Str(<<>>))))]

\* drawView() and the constructor's field initialisers
drawView ==
    [data |-> MathData(Undefined),
     element |-> <<>>,
     contentEditable |-> "true",
     mathNode |-> [created |-> FALSE, kids |-> <<>>],
     listeners |-> 0]

\* constructor({data, config, api})
constructor(d) == setData(drawView, d)

\* ifSVGRendered()
ifSVGRendered(t) == HasSvg(t.element)

\* enableEditing()
enableEditing(t) ==
    LET textNode == Element("div", ParseHTML(ToStr(t.data.text)))
    IN [t EXCEPT !.element = ParseHTML(SerializeHTML(<<textNode>>))]

\* window.math.parse(text).toTex({parenthesis: 'keep'}): the parser's markup
\* for a text is the text tagged as TeX.
toTex(s) == <<TexMark>> \o s

\* getTexSyntax(mathNode)
getTexSyntax(t, w) ==
    IF w.math = "absent" THEN t
    ELSE IF w.math = "ok" /\ t.data.text.type = "string"
         THEN [t EXCEPT !.mathNode.kids = ParseHTML(toTex(t.data.text.str))]
    ELSE [t EXCEPT !.mathNode.kids = ParseHTML(ToStr(t.data.text))]

\* window.MathJax.tex2svg(markup, options).getElementsByTagName('svg')[0]:
\* whether the Typesetter's result for the markup holds a graphic.
tex2svg(markup, w) == w.MathJax = "svg"

\* textToSVG without its guard on window.MathJax.
textToSVGUnguarded(t, w) ==
    IF w.MathJax \in {"absent", "raises"}
    THEN [this |-> t, thrown |-> TRUE, passes |-> 1]
    ELSE LET markup == IF tex2svg(TextContent(t.mathNode.kids), w) THEN <<SvgMarkup>>
                       ELSE SerializeHTML(t.element)
         IN [this |-> [t EXCEPT !.element = ParseHTML(markup)],
             thrown |-> FALSE, passes |-> 1]

\* textToSVG that also stores the graphic's markup in the record.
textToSVGStoresGraphic(t, w) ==
    IF w.MathJax = "absent" THEN [Done(t) EXCEPT !.passes = 1]
    ELSE IF w.MathJax = "raises" THEN [this |-> t, thrown |-> TRUE, passes |-> 1]
    ELSE LET graphic == tex2svg(TextContent(t.mathNode.kids), w)
             markup == IF graphic THEN <<SvgMarkup>> ELSE SerializeHTML(t.element)
         IN [this |-> [t EXCEPT !.element = ParseHTML(markup),
                                !.data.text = IF graphic THEN Str(markup) ELSE @],
             thrown |-> FALSE, passes |-> 1]

\* textToSVG(mathNode)
\* textToSVG that empties the container when the result holds no graphic.
textToSVGClears(t, w) ==
    IF w.MathJax = "absent" THEN [Done(t) EXCEPT !.passes = 1]
    ELSE IF w.MathJax = "raises" THEN [this |-> t, thrown |-> TRUE, passes |-> 1]
    ELSE LET markup == IF tex2svg(TextContent(t.mathNode.kids), w) THEN <<SvgMarkup>>
                       ELSE <<>>
         IN [this |-> [t EXCEPT !.element = ParseHTML(markup)],
             thrown |-> FALSE, passes |-> 1]

textToSVG(t, w) ==
    IF w.MathJax = "absent" THEN [Done(t) EXCEPT !.passes = 1]
    ELSE IF w.MathJax = "raises" THEN [this |-> t, thrown |-> TRUE, passes |-> 1]
    ELSE LET markup == IF tex2svg(TextContent(t.mathNode.kids), w) THEN <<SvgMarkup>>
                       ELSE SerializeHTML(t.element)
         IN [this |-> [t EXCEPT !.element = ParseHTML(markup)],
             thrown |-> FALSE, passes |-> 1]

\* renderSVG that captures the container's markup instead of its plain text.
renderSVGCapturesMarkup(t, w) ==
    LET captured == [t EXCEPT !.data.text =
                                JsOr(Str(SerializeHTML(t.element)), t.data.text)]
        withNode == [captured EXCEPT !.mathNode.created = TRUE]
    IN textToSVG(getTexSyntax(withNode, w), w)

\* renderSVG()
renderSVG(t, w) ==
    LET captured == [t EXCEPT !.data.text =
                                JsOr(Str(TextContent(t.element)), t.data.text)]
        withNode == [captured EXCEPT !.mathNode.created = TRUE]
    IN textToSVG(getTexSyntax(withNode, w), w)

\* onClick()
onClick(t, w) ==
    IF ifSVGRendered(t) THEN Done(enableEditing(t)) ELSE renderSVG(t, w)

\* One dblclick event: every registered listener runs onClick in turn; an
\* exception in one listener does not stop the next.
RECURSIVE dblclick(_, _, _)
dblclick(t, w, n) ==
    IF n = 0 THEN Done(t)
    ELSE LET first == onClick(t, w)
             rest == dblclick(first.this, w, n - 1)
         IN [this |-> rest.this,
             thrown |-> first.thrown \/ rest.thrown,
             passes |-> first.passes + rest.passes]

\* render()
render(t, w) ==
    LET r == renderSVG(t, w)
    IN IF r.thrown THEN r
       ELSE [r EXCEPT !.this.listeners = @ + 1]

\* onKeyUp(e)
\* onKeyUp that clears the container on Backspace only.
onKeyUpBackspaceOnly(t, code) ==
    LET flagged == [t EXCEPT !.contentEditable =
                               IF ifSVGRendered(t) THEN "false" ELSE "true"]
    IN IF code # "Backspace" THEN flagged
       ELSE IF TextContent(flagged.element) = <<>>
            THEN [flagged EXCEPT !.element = ParseHTML(<<>>)]
       ELSE flagged

onKeyUp(t, code) ==
    LET flagged == [t EXCEPT !.contentEditable =
                               IF ifSVGRendered(t) THEN "false" ELSE "true"]
    IN IF code # "Backspace" /\ code # "Delete" THEN flagged
       ELSE IF TextContent(flagged.element) = <<>>
            THEN [flagged EXCEPT !.element = ParseHTML(<<>>)]
       ELSE flagged

\* merge that stores the incoming data.
mergeIncoming(t, d) == setData(t, d)

\* merge(data)
merge(t, d) == setData(t, t.data)

\* validate without trim().
validateNoTrim(savedData) ==
    IF savedData.text.type = "undefined" THEN [thrown |-> TRUE, value |-> FALSE]
    ELSE IF savedData.text.str = <<>> THEN [thrown |-> FALSE, value |-> FALSE]
    ELSE [thrown |-> FALSE, value |-> TRUE]

\* validate(savedData): [thrown, value]
validate(savedData) ==
    IF savedData.text.type = "undefined" THEN [thrown |-> TRUE, value |-> FALSE]
    ELSE IF Trim(savedData.text.str) = <<>> THEN [thrown |-> FALSE, value |-> FALSE]
    ELSE [thrown |-> FALSE, value |-> TRUE]

\* save that reads the container's text.
saveFromView(t) == MathData(Str(TextContent(t.element)))

\* save(toolsContent)
save(t) == MathData(t.data.text)

\* onPaste that takes the pasted element's text instead of its markup.
onPasteText(t, m) == setData(t, MathData(Str(TextContent(ParseHTML(m)))))

\* onPaste(event), event.detail.data.innerHTML = m
onPaste(t, m) == setData(t, MathData(Str(m)))


(***************************************************************************)
(* State.                                                                  *)
(***************************************************************************)
VARIABLES
    data,             \* this._data
    element,          \* this._element's child nodes
    contentEditable,  \* this._element.contentEditable
    mathNode,         \* this.mathNode
    listeners,        \* dblclick listeners registered on this._element
    window,           \* window.math and window.MathJax
    op,               \* the last operation
    arg,              \* its argument, where it takes one
    ret,              \* its return value
    thrown,           \* whether it ended in an exception
    passes,           \* render passes it ran
    wasRendered,      \* ifSVGRendered() when it started
    fresh             \* the constructor's data, until a render pass, toggle or paste

vars == <<data, element, contentEditable, mathNode, listeners, window, op, arg,
          ret, thrown, passes, wasRendered, fresh>>

This ==
    [data |-> data, element |-> element, contentEditable |-> contentEditable,
     mathNode |-> mathNode, listeners |-> listeners]

Void == [kind |-> "void", text |-> Undefined, bool |-> FALSE]
RetData(d) == [kind |-> "data", text |-> d.text, bool |-> FALSE]
RetBool(b) == [kind |-> "boolean", text |-> Undefined, bool |-> b]

NotFresh == [is |-> FALSE, text |-> Undefined]

\* The values of a MathData argument.
DataArgs == {NoData, MathData(Undefined)} \cup {MathData(Str(s)) : s \in InputStrings}

\* The object's fields after a handler.
Becomes(t) ==
    /\ data' = t.data
    /\ element' = t.element
    /\ contentEditable' = t.contentEditable
    /\ mathNode' = t.mathNode
    /\ listeners' = t.listeners

\* What the last operation was and how it ended.
Observed(name, a, r, outcome) ==
    /\ op' = name
    /\ arg' = a
    /\ ret' = r
    /\ thrown' = outcome.thrown
    /\ passes' = outcome.passes
    /\ wasRendered' = ifSVGRendered(This)

Init ==
    \E d \in DataArgs :
        LET t == constructor(d)
        IN /\ data = t.data
           /\ element = t.element
           /\ contentEditable = t.contentEditable
           /\ mathNode = t.mathNode
           /\ listeners = t.listeners
           /\ window = [math |-> "absent", MathJax |-> "absent"]
           /\ op = "constructor"
           /\ arg = Undefined
           /\ ret = Void
           /\ thrown = FALSE
           /\ passes = 0
           /\ wasRendered = FALSE
           /\ fresh = [is |-> TRUE, text |-> d.text]

\* The collaborators as one operation meets them: a loaded parser parses the
\* text it is given or raises on it, a loaded typesetter returns its result or
\* raises.
Collaborators(parses, typesets) ==
    [math |-> IF window.math = "absent" THEN "absent"
              ELSE IF parses THEN "ok" ELSE "raises",
     MathJax |-> IF window.MathJax = "absent" \/ typesets THEN window.MathJax
                 ELSE "raises"]

\* The host calls render().
Render ==
    /\ listeners < MaxRender
    /\ \E parses \in BOOLEAN, typesets \in BOOLEAN :
           LET r == render(This, Collaborators(parses, typesets))
           IN /\ Becomes(r.this)
              /\ Observed("render", Undefined, Void, r)
    /\ fresh' = NotFresh
    /\ UNCHANGED window

\* The user double-clicks the container.
DblClick ==
    /\ listeners > 0
    /\ \E parses \in BOOLEAN, typesets \in BOOLEAN :
           LET r == dblclick(This, Collaborators(parses, typesets), listeners)
           IN /\ Becomes(r.this)
              /\ Observed("dblclick", Undefined, Void, r)
    /\ fresh' = NotFresh
    /\ UNCHANGED window

\* A keyup event reaches the container.
KeyUp ==
    \E code \in {"Backspace", "Delete", "KeyX"} :
        /\ Becomes(onKeyUp(This, code))
        /\ Observed("keyup", Str(<<code>>), Void, Done(This))
        /\ UNCHANGED <<window, fresh>>

\* The host calls merge(data) with another block's data.
Merge ==
    \E d \in {MathData(Undefined), MathData(Str(<<"x">>))} :
        /\ Becomes(merge(This, d))
        /\ Observed("merge", Undefined, Void, Done(This))
        /\ UNCHANGED <<window, fresh>>

\* validate(d) called by the host.
Validated(d) ==
    LET v == validate(d)
    IN /\ Observed("validate", d.text, RetBool(v.value),
                   [Done(This) EXCEPT !.thrown = v.thrown])
       /\ UNCHANGED <<data, element, contentEditable, mathNode, listeners,
                      window, fresh>>

\* The host validates what save() returns.
Validate == Validated(save(This))

\* The host validates any record with a string text.
ValidateStrings == SeqsUpTo({"x", " ", BoldMarkup}, MaxValidateLen)
ValidateAny == \E s \in ValidateStrings : Validated(MathData(Str(s)))

\* The host calls save(toolsContent).
Save ==
    /\ Becomes(This)
    /\ Observed("save", Undefined, RetData(save(This)), Done(This))
    /\ UNCHANGED <<window, fresh>>

\* The editor delivers a paste event.
Paste ==
    \E m \in InputStrings :
        /\ Becomes(onPaste(This, m))
        /\ Observed("paste", Str(m), Void, Done(This))
        /\ fresh' = NotFresh
        /\ UNCHANGED window

\* What a user can leave in an editable element: typed characters and the
\* <br> a browser inserts.
TypedNodes == {TextNode(c) : c \in TypedLexemes} \cup {Element("br", <<>>)}
TypedContent ==
    {k \in SeqsUpTo(TypedNodes, MaxLen) :
        Cardinality({i \in DOMAIN k : k[i].tag # "#text"}) <= 1}

\* The user edits the container (contentEditable) or the editable wrapper
\* enableEditing() put in it.
UserEdit ==
    \E typed \in TypedContent, inside \in BOOLEAN :
        /\ IF inside THEN element # <<>> /\ element[1].tag = "div"
           ELSE contentEditable = "true"
        /\ element' = IF inside THEN <<Element("div", typed)>> ELSE typed
        /\ Observed("edit", Undefined, Void, Done(This))
        /\ UNCHANGED <<data, contentEditable, mathNode, listeners, window, fresh>>

\* load('./math.min.js', 'mathJax'): the Symbolic Parser appears.
ParserLoads ==
    /\ window.math = "absent"
    /\ window' = [window EXCEPT !.math = "loaded"]
    /\ Observed("load", Undefined, Void, Done(This))
    /\ UNCHANGED <<data, element, contentEditable, mathNode, listeners, fresh>>

\* load('./tex-svg.js', 'mathJS'): the Typesetter appears, or changes what it
\* returns: a result that holds a graphic or one that holds none.
TypesetterLoads ==
    \E b \in {"svg", "nosvg"} :
        /\ window.MathJax # b
        /\ window' = [window EXCEPT !.MathJax = b]
        /\ Observed("load", Undefined, Void, Done(This))
        /\ UNCHANGED <<data, element, contentEditable, mathNode, listeners, fresh>>

Next ==
    \/ Render
    \/ DblClick
    \/ KeyUp
    \/ Merge
    \/ Validate
    \/ Save
    \/ Paste
    \/ UserEdit
    \/ ParserLoads
    \/ TypesetterLoads

Spec == Init /\ [][Next]_vars

\* The host's data contract alone: construct, paste, save, validate.
NextData ==
    \/ ValidateAny
    \/ Validate
    \/ Save
    \/ Paste

SpecData == Init /\ [][NextData]_vars


(***************************************************************************)
(* Claims.                                                                 *)
(***************************************************************************)
AllSpace(s) == \A i \in DOMAIN s : s[i] = " "
HoldsSvgMarkup(v) == v.type = "string" /\ \E i \in DOMAIN v.str : v.str[i] = SvgMarkup

\* An operation that ran exactly one render pass and nothing else: render(),
\* or a double-click with one listener on a container holding no graphic.
OnePass ==
    /\ passes = 1
    /\ \/ op = "render"
       \/ op = "dblclick" /\ listeners = 1 /\ ~wasRendered

\* C1: validate(savedRecord) with a string text returns false exactly when the
\* text is empty or all whitespace and true otherwise, whatever the block's
\* record and view state are, and does not throw.
C1_ValidateIffNotBlank ==
    (op = "validate" /\ arg.type = "string")
        => (~thrown /\ ret = RetBool(~AllSpace(arg.str)))

C1_Witness ==
    /\ op = "validate"
    /\ arg = Str(<<" ", "x">>)
    /\ ret = RetBool(TRUE)
    /\ data.text # arg

\* C2: a block constructed with {text: s}, s a string, returns {text: s} from
\* every save() made before any render pass, toggle or paste.
C2_RoundTrip ==
    (op = "save" /\ fresh.is /\ fresh.text.type = "string")
        => (~thrown /\ ret = RetData(MathData(fresh.text)))

C2_Witness ==
    /\ op = "save"
    /\ fresh.is
    /\ fresh.text = Str(<<BoldMarkup>>)
    /\ ret.text = Str(<<BoldMarkup>>)

\* C3: save() returns the text of the in-memory record and changes neither the
\* record nor the container; and no operation other than one that runs a
\* render pass or a paste changes the record, so between those every save()
\* returns the same text.
C3_SaveReadsRecord ==
    [][/\ op' = "save" =>
            /\ ret' = RetData(MathData(data.text))
            /\ ~thrown'
            /\ <<data, element, contentEditable, mathNode, listeners>>'
                 = <<data, element, contentEditable, mathNode, listeners>>
       /\ (passes' = 0 /\ op' # "paste") => data' = data]_vars

C3_Witness ==
    /\ op = "save"
    /\ ~fresh.is
    /\ ret.text = Str(<<"x">>)
    /\ SerializeHTML(element) # <<"x">>
    /\ ~HasSvg(element)

\* C4: in every reachable state the record's text is a string.
C4_TextIsString == data.text.type = "string"

\* C5: two consecutive completed double-click toggles, with no other event in
\* between and the Typesetter either absent or returning a graphic, leave the
\* container in the class (graphic or no graphic) it had before the first.
C5_ToggleLaw ==
    [][(/\ op = "dblclick" /\ ~thrown
        /\ op' = "dblclick" /\ ~thrown'
        /\ window.MathJax \in {"absent", "svg"})
          => (HasSvg(element') <=> wasRendered)]_vars

\* The record's text is non-empty raw text and the container displays it.
ShowsRawText ==
    /\ data.text.type = "string"
    /\ data.text.str # <<>>
    /\ \A i \in DOMAIN data.text.str : data.text.str[i] = "x"
    /\ element = ParseHTML(data.text.str)

\* C6, as claimed: a render pass that runs while the Symbolic Parser is absent,
\* on a block whose text is non-empty raw text, leaves the container
\* displaying that text and holding no graphic, whether or not the Typesetter
\* is available (stated for the passes that end without an exception).
C6_ParserMissingShowsText ==
    [][(ShowsRawText /\ OnePass' /\ ~thrown' /\ window.math = "absent")
          => /\ ~HasSvg(element')
             /\ TextContent(element') = data.text.str]_vars

\* C6, amended: a render pass that runs while both the Symbolic Parser and the
\* Typesetter are absent does not throw and leaves the container as it was; when
\* the container displayed non-empty text, the record's text is that text.
C6_BothMissingKeepsText ==
    [][(/\ OnePass'
        /\ window.math = "absent"
        /\ window.MathJax = "absent")
          => /\ ~thrown'
             /\ element' = element
             /\ TextContent(element) # <<>>
                  => data'.text = Str(TextContent(element'))]_vars

C6_Witness ==
    /\ OnePass
    /\ window.math = "absent"
    /\ window.MathJax = "absent"
    /\ data.text = Str(<<"x">>)
    /\ element = <<TextNode("x")>>
    /\ ~thrown

\* C7: no operation of the block ends in an exception.
C7_NoThrow == ~thrown

\* C8: after onPaste with inner markup m the record is {text: m} and the
\* container's content is m, whatever the record, the content and the view
\* state were; a save() that follows returns {text: m}.
C8_PasteReplaces ==
    /\ [](op = "paste" =>
            /\ ~thrown
            /\ data = MathData(arg)
            /\ SerializeHTML(element) = arg.str)
    /\ [][(op = "paste" /\ op' = "save") => ret' = RetData(MathData(arg))]_vars

C8_Witness ==
    /\ op = "paste"
    /\ wasRendered
    /\ arg = Str(<<BoldMarkup>>)
    /\ data.text = Str(<<BoldMarkup>>)
    /\ ~HasSvg(element)

\* C9: merge(incoming) leaves the record, the container's content and the view
\* state as they were.
C9_MergeIsNoOp ==
    [][op' = "merge" =>
          /\ data' = data
          /\ element' = element
          /\ contentEditable' = contentEditable
          /\ (HasSvg(element') <=> HasSvg(element))]_vars

\* C10, as claimed: a save() made right after a render pass that put a graphic
\* in the container returns a text that holds the graphic's markup.
C10_SavePersistsGraphic ==
    [][(OnePass /\ ~thrown /\ HasSvg(element) /\ op' = "save")
          => HoldsSvgMarkup(ret'.text)]_vars

\* C10, amended: a render pass that puts a graphic in the container leaves in
\* the record the source text it captured (the container's plain text when
\* there was any, else the text stored before), never the graphic's markup,
\* and save() returns the record's text in Rendered state as in any other.
C10_SaveReturnsSource ==
    /\ [][(OnePass' /\ ~thrown' /\ HasSvg(element') /\ window.MathJax = "svg")
            => data'.text = JsOr(Str(TextContent(element)), data.text)]_vars
    /\ [](op = "save" => ret.text = data.text)

C10_Witness ==
    /\ op = "save"
    /\ HasSvg(element)
    /\ window.MathJax = "svg"
    /\ ret.text = Str(<<"x">>)


\* C11: in every reachable state the container is content-editable exactly
\* when it holds no graphic.
C11_EditableIffEditing ==
    contentEditable = (IF HasSvg(element) THEN "false" ELSE "true")

\* C12: a double-click (one listener) on a container holding a graphic leaves
\* it holding none and leaves the record as it was, whatever the record's text.
C12_ToggleEndsEditing ==
    [][(op' = "dblclick" /\ listeners = 1 /\ HasSvg(element))
          => (~HasSvg(element') /\ data' = data)]_vars

\* C13: after a render pass on a string text the content of the node handed to
\* the Typesetter is the parser's markup for the text of that pass or the text
\* itself, and the text itself when the Symbolic Parser is absent.
C13_MarkupFromCurrentText ==
    [][(OnePass' /\ data'.text.type = "string" /\ window.MathJax # "absent")
          => /\ mathNode'.kids \in {ParseHTML(toTex(data'.text.str)),
                                    ParseHTML(data'.text.str)}
             /\ window.math = "absent"
                  => mathNode'.kids = ParseHTML(data'.text.str)]_vars

\* C14: a render pass sets the record's text to the container's plain text when
\* that is not empty and leaves it as stored otherwise, and changes nothing
\* else in the record, whatever the collaborators do.
C14_CaptureAtPassStart ==
    [][OnePass' =>
          data' = [data EXCEPT !.text =
                                 IF TextContent(element) # <<>>
                                 THEN Str(TextContent(element))
                                 ELSE data.text]]_vars

C14_Witness ==
    /\ OnePass
    /\ element = ParseHTML(<<BoldMarkup>>)
    /\ data.text = Str(<<"x">>)


\* C15: a completed render pass leaves the container holding exactly the
\* graphic when the Typesetter returned one; a pass whose Typesetter is absent,
\* raises or returns no graphic leaves the container's content as it was, so
\* the container holds a graphic after it only if it did before.
C15_ReplacedIffGraphic ==
    [][OnePass' =>
          IF window.MathJax = "svg" /\ ~thrown'
          THEN SerializeHTML(element') = <<SvgMarkup>>
          ELSE /\ element' = element
               /\ HasSvg(element') <=> HasSvg(element)]_vars

C15_Witness ==
    /\ OnePass
    /\ ~thrown
    /\ window = [math |-> "loaded", MathJax |-> "nosvg"]
    /\ element = <<TextNode("x")>>

\* C16: after a completed render() or double-click that leaves the record's
\* text empty the container holds no graphic.
C16_EmptyTextIsEditing ==
    (op \in {"render", "dblclick"} /\ ~thrown /\ data.text = Str(<<>>))
        => ~HasSvg(element)

\* C17: a keyup of Backspace or Delete on a container whose plain text is
\* empty leaves the container with no content; any other keyup leaves the
\* content as it was; no keyup changes the record.
C17_KeyUpCleanup ==
    [][op' = "keyup" =>
          /\ data' = data
          /\ element' = IF /\ arg' \in {Str(<<"Backspace">>), Str(<<"Delete">>)}
                           /\ TextContent(element) = <<>>
                        THEN <<>>
                        ELSE element]_vars

C17_Witness ==
    /\ op = "keyup"
    /\ arg = Str(<<"Delete">>)
    /\ wasRendered
    /\ element = <<>>

\* C18: render() on a block constructed with {text: s}, s a string, whose
\* container still shows what the constructor put there, leaves the record's
\* text (the text save() returns) equal to s.
C18_RenderPreservesSource ==
    [][(/\ op' = "render"
        /\ fresh.is /\ fresh.text.type = "string"
        /\ element = ParseHTML(fresh.text.str))
          => data'.text = fresh.text]_vars

\* C19: a completed double-click on a container holding a graphic, the
\* record's text a string holding no graphic markup, leaves the container
\* holding no graphic, however many times render() was called before.
C19_OneToggle ==
    [][(/\ op' = "dblclick" /\ ~thrown'
        /\ listeners >= 1
        /\ HasSvg(element)
        /\ data.text.type = "string" /\ ~HoldsSvgMarkup(data.text))
          => ~HasSvg(element')]_vars

====
